---- MODULE Spec2Model ----
(***************************************************************************)
(* Streaming segmentation and dispatch pipeline of whisper_server.py:      *)
(* the per-connection WebSocket handler (handle_websocket), the registry   *)
(* of session buffers (audio_buffers), the chunk extraction loop, and the  *)
(* per-chunk tasks (process_audio_chunk) run on the transcription pool.    *)
(*                                                                         *)
(* A byte string is a sequence of runs [id, off, len]: len consecutive     *)
(* bytes of binary message id, starting at its byte off.  A byte is        *)
(* identified by the message that carried it and its offset there, so two  *)
(* byte strings are equal exactly when they hold the same bytes of the     *)
(* input in the same order.  Runs are cut only where the code slices.      *)
(***************************************************************************)
EXTENDS Integers, Sequences, FiniteSets, TLC

\* ------------------------------------------------------------------ bounds
MaxMsgs == 3            \* client messages handled in a behaviour of ReceiveSpec
PoolMsgs == 2           \* client messages handled in a behaviour of Spec
CpuCount == 4           \* multiprocessing.cpu_count() of the host
MaxConnects == 3        \* connections accepted in a behaviour of ReuseSpec
CALL_DEADLINE == 30     \* seconds an inference call is given (line 641)
MaxPosts == 3           \* one-shot requests made in a behaviour of HttpSpec
CtlMsgs == 3            \* client messages handled in a behaviour of ControlSpec
MaxCalls == 3           \* transcription calls in a behaviour of FileSpec
MaxSegments == 2        \* segments an inference returns in SegmentSpec
ChunkMsgs == 3          \* client messages handled in a behaviour of ChunkSpec
BurstMsgs == 2          \* client messages handled in a behaviour of BurstSpec

\* ------------------------------------------------------- program constants
MIN_CHUNK_SIZE == 48000
OVERLAP_SIZE == 16000
MAX_BUFFER_SIZE == 160000
MIN_PCM_REQUEST == 2000         \* line 360: min_size of a raw PCM payload
MIN_WEBM_REQUEST == 1000        \* line 360: min_size of a WebM payload
MIN_PCM_BYTES == 2000           \* line 107: min_bytes of pcm_bytes_to_wav
EBML_HEADER_LENGTH == 4         \* line 624: the bytes the sniffing looks at

Min2(a, b) == IF a < b THEN a ELSE b
Max2(a, b) == IF a > b THEN a ELSE b

MAX_WORKERS == Min2(4, Max2(2, CpuCount \div 2))

\* ------------------------------------------------------------------ inputs
Conns == {"c1", "c2"}                     \* client addresses
Sources == {"microphone", "system"}       \* source labels a start may carry
MsgSizes == {32000, 48000, 49000, 200000}   \* binary message lengths
PoolSizes == {48000, 49000}     \* binary message lengths, when chunks are run
BurstSizes == {80000}           \* binary message lengths, when chunks queue up
\* what inference does, when chunks queue up: with these a chunk's task
\* reaches each of its sends that can be reached (lines 411 and 434)
BurstOutcomes == {"speech", "raise"}
\* binary message lengths, odd ones too, when chunks are counted
ChunkSizes == {31999, 48001, 80000, 200000}
ReuseSizes == {16000, 32000}    \* binary message lengths, when addresses recur
CtlSizes == {0, 32000}          \* binary message lengths, among control messages
\* text messages that are no start, stop or ping: not JSON at all; JSON that
\* is no object (a list, a number, a string, null); an object whose type is
\* missing or none of the three
Texts == {"invalid", "nonobject", "other"}
Outcomes == {"speech", "nospeech", "raise"}       \* what inference does
BodySizes == {0, 500, 1500}      \* lengths of one-shot payloads
\* what a one-shot request shows of its format: nothing; a declared content
\* type with "webm" in it; a body that begins with the EBML header
Sniffs == {"none", "type", "magic"}
\* lengths of one-shot payloads sent under a Content-Length that int() rejects
MalformedSizes == {0, 1500}
\* what a one-shot call meets: as Outcomes, or a transcoder that fails
CallOutcomes == Outcomes \cup {"ffmpeg"}

None == "<None>"        \* Python None, where a string is expected
NoKey == <<>>           \* Python None, where a buffer key is expected
NoResult == [kind |-> "pending", text |-> ""]

\* --------------------------------------------------------------- byte strings
RECURSIVE ByteLen(_)
ByteLen(b) == IF b = <<>> THEN 0 ELSE Head(b).len + ByteLen(Tail(b))

\* b[:n]
RECURSIVE SliceTo(_, _)
SliceTo(b, n) ==
    IF n <= 0 \/ b = <<>> THEN <<>>
    ELSE IF Head(b).len <= n
         THEN <<Head(b)>> \o SliceTo(Tail(b), n - Head(b).len)
         ELSE <<[Head(b) EXCEPT !.len = n]>>

\* b[n:]
RECURSIVE SliceFrom(_, _)
SliceFrom(b, n) ==
    IF n <= 0 \/ b = <<>> THEN b
    ELSE IF Head(b).len <= n
         THEN SliceFrom(Tail(b), n - Head(b).len)
         ELSE <<[Head(b) EXCEPT !.off = @ + n, !.len = @ - n]>> \o Tail(b)

\* the bytes of binary message id, n bytes long
Payload(id, n) == IF n = 0 THEN <<>> ELSE <<[id |-> id, off |-> 0, len |-> n]>>

\* Extend, were the buffer replaced by the message
Extend_Replace(buf, message) == message

\* bytearray.extend
Extend(buf, message) == buf \o message

\* f"{client_address}_{source_type}"
BufferKey(c, s) == <<c, s>>

\* Python truthiness of a source label
Truthy(s) == s # None /\ s # ""


\* ---------------------------------------------------------------- the state
VARIABLES
    state,          \* per client address: "new", "open" or "closed"
    source_type,    \* handle_websocket's local source_type, per connection
    buffer_key,     \* handle_websocket's local buffer_key, per connection
    audio_buffers,  \* the registry: buffer key -> accumulated bytes
    tasks,          \* the process_audio_chunk tasks, in creation order
    outbox,         \* per connection: the messages sent to the client, in order
    nmsgs,          \* client messages handled so far
    nconns,         \* connections accepted so far
    hist,           \* per session buffer: what was fed, trimmed and emitted
    stopped,        \* per connection: the stop handled since the last start
    last,           \* the handler step taken last, with what it saw before it
    requests,       \* the one-shot requests, in arrival order
    calls,          \* the transcribe_audio_chunk calls, in starting order
    files           \* the temporary files that exist

\* the variables of the streaming path
wsvars == <<state, source_type, buffer_key, audio_buffers, tasks, outbox, nmsgs,
            nconns, hist, stopped, last>>

\* the variables of a transcription call
callvars == <<calls, files>>

vars == <<wsvars, requests, callvars>>

\* ------------------------------------------------------- the chunking logic
\* TrimOverflow, were the buffer left to grow
TrimOverflow_Never(buf) == buf

\* TrimOverflow, were the oldest MAX_BUFFER_SIZE bytes the ones kept
TrimOverflow_KeepOldest(buf) ==
    IF ByteLen(buf) > MAX_BUFFER_SIZE
    THEN SliceTo(buf, MAX_BUFFER_SIZE)
    ELSE buf

\* lines 507-511: keep only the most recent MAX_BUFFER_SIZE bytes
TrimOverflow(buf) ==
    IF ByteLen(buf) > MAX_BUFFER_SIZE
    THEN SliceFrom(buf, ByteLen(buf) - MAX_BUFFER_SIZE)
    ELSE buf

\* ExtractChunk, were the overlap kept in the exact-length case too
ExtractChunk_AlwaysOverlap(buf) ==
    [pre   |-> buf,
     chunk |-> SliceTo(buf, MIN_CHUNK_SIZE),
     post  |-> SliceFrom(buf, MIN_CHUNK_SIZE - OVERLAP_SIZE)]

\* ExtractChunk, were the buffer cleared after every chunk
ExtractChunk_AlwaysClear(buf) ==
    [pre   |-> buf,
     chunk |-> SliceTo(buf, MIN_CHUNK_SIZE),
     post  |-> <<>>]

\* ExtractChunk, were the buffer cut at the chunk's end (no overlap kept)
ExtractChunk_NoOverlap(buf) ==
    [pre   |-> buf,
     chunk |-> SliceTo(buf, MIN_CHUNK_SIZE),
     post  |-> IF ByteLen(buf) > MIN_CHUNK_SIZE
               THEN SliceFrom(buf, MIN_CHUNK_SIZE)
               ELSE <<>>]

\* lines 516-525: one iteration of the extraction loop
ExtractChunk(buf) ==
    [pre   |-> buf,
     chunk |-> SliceTo(buf, MIN_CHUNK_SIZE),
     post  |-> IF ByteLen(buf) > MIN_CHUNK_SIZE
               THEN SliceFrom(buf, MIN_CHUNK_SIZE - OVERLAP_SIZE)
               ELSE <<>>]

\* ChunkLoop, were at most one chunk taken from the buffer for a message
ChunkLoop_Once(buf, steps) ==
    IF ByteLen(buf) >= MIN_CHUNK_SIZE
    THEN LET s == ExtractChunk(buf) IN [buf |-> s.post, steps |-> Append(steps, s)]
    ELSE [buf |-> buf, steps |-> steps]

\* lines 514-528: the loop; steps are its iterations, oldest first
RECURSIVE ChunkLoop(_, _)
ChunkLoop(buf, steps) ==
    IF ByteLen(buf) >= MIN_CHUNK_SIZE
    THEN LET s == ExtractChunk(buf) IN ChunkLoop(s.post, Append(steps, s))
    ELSE [buf |-> buf, steps |-> steps]

\* lines 502-528: what one binary message does to a session buffer
Feed(buf, message) ==
    LET appended == Extend(buf, message)
        trimmed  == TrimOverflow(appended)
        loop     == ChunkLoop(trimmed, <<>>)
    IN [appended |-> appended, trimmed |-> trimmed,
        buf |-> loop.buf, steps |-> loop.steps]

\* ------------------------------------------------------------- the registry
\* SetEmpty, were a buffer that exists kept as it is
SetEmpty_KeepExisting(bufs, key) ==
    [k \in DOMAIN bufs \cup {key} |-> IF k \in DOMAIN bufs THEN bufs[k] ELSE <<>>]

\* line 471 (and 500): audio_buffers[buffer_key] = bytearray()
SetEmpty(bufs, key) ==
    [k \in DOMAIN bufs \cup {key} |-> IF k = key THEN <<>> ELSE bufs[k]]

\* DelKey, were the buffer left in the registry
DelKey_Keep(bufs, key) == bufs

\* lines 482-483 and 573-574: del audio_buffers[buffer_key], when present
DelKey(bufs, key) ==
    IF key # NoKey /\ key \in DOMAIN bufs
    THEN [k \in DOMAIN bufs \ {key} |-> bufs[k]]
    ELSE bufs

SetBuf(bufs, key, buf) == [bufs EXCEPT ![key] = buf]

\* ------------------------------------------------------------ the messages
Msg(type, source, task) == [type |-> type, source |-> source, task |-> task]

Send(box, c, m) == [box EXCEPT ![c] = Append(@, m)]

\* SendAll, were the results of chunks put in the order of their submission
SendAll_BySubmission(box, c, ms) ==
    LET b     == box[c]
        later == IF ms = <<>> \/ ms[1].task = 0 THEN {}
                 ELSE {k \in 1..Len(b) : b[k].task > ms[1].task}
    IN IF later = {} THEN [box EXCEPT ![c] = b \o ms]
       ELSE LET k0 == CHOOSE k \in later : \A j \in later : k <= j
            IN [box EXCEPT ![c] =
                   SubSeq(b, 1, k0 - 1) \o ms \o SubSeq(b, k0, Len(b))]

\* websocket.send of each message in turn: the client gets them in the order
\* they are sent
SendAll(box, c, ms) == [box EXCEPT ![c] = @ \o ms]

\* how many of a connection's messages its receive loop sent (chunk tasks
\* send the others)
HandlerMsgs(sent) == Cardinality({i \in 1..Len(sent) : sent[i].task = 0})

\* ----------------------------------------------------------- text messages
\* line 463: json.loads of a text that is no start, stop or ping
JsonLoads(text) ==
    IF text = "invalid" THEN "JSONDecodeError"
    ELSE IF text = "nonobject" THEN "value"
    ELSE "dict"

\* TextOutcome, were a JSONDecodeError not caught inside the loop
TextOutcome_InvalidEndsLoop(text) ==
    IF JsonLoads(text) = "JSONDecodeError" THEN "raised"
    ELSE IF JsonLoads(text) = "value" THEN "error"
    ELSE "ignored"

\* lines 463-492 and 530-565: what the receive loop does with such a text.
\* Not JSON: line 530 catches the JSONDecodeError and, the message being no
\* bytes (line 532), does nothing.  JSON but no object: data.get at line 464
\* raises AttributeError, line 557 catches it and lines 560-563 send an
\* error message.  An object: no branch of lines 466-491 is taken.
TextOutcome(text) ==
    IF JsonLoads(text) = "JSONDecodeError" THEN "ignored"
    ELSE IF JsonLoads(text) = "value" THEN "error"
    ELSE "ignored"

\* PingReplies, were a ping not answered
PingReplies_None(c) == <<>>

\* lines 488-491: the answer to {"type":"ping"}
PingReplies(c) == <<Msg("pong", None, 0)>>

\* ------------------------------------------------------------ chunk tasks
\* lines 254-354: the value transcribe_audio_chunk returns, or that it raises
transcribe_audio_chunk(chunk, outcome) ==
    IF ByteLen(chunk) < 2000 THEN [kind |-> "raise", text |-> ""]
    ELSE IF outcome = "raise" THEN [kind |-> "raise", text |-> ""]
    ELSE IF outcome = "speech" THEN [kind |-> "dict", text |-> "text"]
    ELSE [kind |-> "None", text |-> ""]

\* ChunkReplies, were a None result dropped without a word to the client
ChunkReplies_NoneUnreported(result, source, t) ==
    IF result.kind = "raise" THEN <<Msg("error", source, t)>>
    ELSE IF result.kind = "None" THEN <<>>
    ELSE IF result.text # "" THEN <<Msg("transcription", source, t)>>
    ELSE <<Msg("silence", source, t)>>

\* ChunkReplies, were the error message sent without its source (as the
\* receive loop's own error message is, lines 560-563)
ChunkReplies_ErrorUntagged(result, source, t) ==
    IF result.kind = "raise" THEN <<Msg("error", None, t)>>
    ELSE IF result.kind = "None" THEN <<Msg("error", None, t)>>
    ELSE IF result.text # "" THEN <<Msg("transcription", source, t)>>
    ELSE <<Msg("silence", source, t)>>

\* ChunkReplies, were the source read from the connection when the result
\* arrives
ChunkReplies_CurrentSource(result, source, t) ==
    IF result.kind \in {"raise", "None"}
    THEN <<Msg("error", source_type[tasks[t].ws], t)>>
    ELSE IF result.text # ""
    THEN <<Msg("transcription", source_type[tasks[t].ws], t)>>
    ELSE <<Msg("silence", source_type[tasks[t].ws], t)>>

\* lines 406-440: the messages process_audio_chunk sends for a result.  The
\* call raised: the handler at line 430 sends an error.  It returned None:
\* result.get at line 407 raises AttributeError, and line 430 sends an error.
\* It returned a dict: a transcription, or a silence when the text is empty.
ChunkReplies(result, source, t) ==
    IF result.kind = "raise" THEN <<Msg("error", source, t)>>
    ELSE IF result.kind = "None" THEN <<Msg("error", source, t)>>
    ELSE IF result.text # "" THEN <<Msg("transcription", source, t)>>
    ELSE <<Msg("silence", source, t)>>

Running == {i \in 1..Len(tasks) : tasks[i].pc = "running"}

RunningJobs == {r \in 1..Len(requests) : requests[r].job = "running"}

\* the workers of transcription_executor (line 66) that are taken
Busy == Cardinality(Running) + Cardinality(RunningJobs)

\* ReceiveReady, were a chunk's task awaited where it is created
ReceiveReady_AwaitsChunk(ts, c) ==
    \A i \in 1..Len(ts) : ts[i].ws = c => ts[i].pc = "done"

\* lines 459 and 528: the receive loop of c is back at its async for, to take
\* the next message.  asyncio.create_task (line 528) starts the chunk's task
\* and returns at once; nothing in the loop awaits a chunk's task.
ReceiveReady(ts, c) == TRUE

\* line 459: the receive loop of c takes the next message of its client
Receiving(c) == state[c] = "open" /\ ReceiveReady(tasks, c)

\* CloseWebsocket, were the chunk tasks of the connection cancelled with it
CloseWebsocket_Cancel(ts, c) ==
    [i \in 1..Len(ts) |->
        IF ts[i].ws = c
        THEN [ts[i] EXCEPT !.closed = TRUE,
                           !.pc = IF @ = "done" THEN @ ELSE "cancelled"]
        ELSE ts[i]]

\* lines 567-574: the connection has ended; the chunk tasks created on it
\* (line 528) are left alone, with a websocket that is closed from now on
CloseWebsocket(ts, c) ==
    [i \in 1..Len(ts) |->
        IF ts[i].ws = c THEN [ts[i] EXCEPT !.closed = TRUE] ELSE ts[i]]

\* ------------------------------------------------------------------- Init
EmptyFn == [k \in {} |-> <<>>]

Init ==
    /\ state = [c \in Conns |-> "new"]
    /\ source_type = [c \in Conns |-> None]
    /\ buffer_key = [c \in Conns |-> NoKey]
    /\ audio_buffers = EmptyFn
    /\ tasks = <<>>
    /\ outbox = [c \in Conns |-> <<>>]
    /\ nmsgs = 0
    /\ nconns = 0
    /\ hist = EmptyFn
    /\ stopped = [c \in Conns |-> "no"]
    /\ last = [kind |-> "init"]
    /\ requests = <<>>
    /\ calls = <<>>
    /\ files = {}

NewHist == [fed |-> <<>>, trimmed |-> <<>>, chunks |-> <<>>]

\* ---------------------------------------------------------------- actions
\* lines 442-457: a connection from address c is accepted: the welcome message
\* is sent and the handler's locals start as None
Accept(c) ==
    /\ state' = [state EXCEPT ![c] = "open"]
    /\ nconns' = nconns + 1
    /\ source_type' = [source_type EXCEPT ![c] = None]
    /\ buffer_key' = [buffer_key EXCEPT ![c] = NoKey]
    /\ outbox' = Send(outbox, c, Msg("connected", None, 0))
    /\ stopped' = [stopped EXCEPT ![c] = "no"]
    /\ last' = [kind |-> "connect", c |-> c]
    /\ UNCHANGED <<callvars, requests, audio_buffers, tasks, nmsgs, hist>>

\* a client connects from an address not seen before
Connect(c) == state[c] = "new" /\ Accept(c)

\* a client connects from the address of a client that has gone: the address
\* is all the server knows a client by (lines 444, 468, 498)
Reconnect(c) == state[c] = "closed" /\ Accept(c)

\* lines 466-477: {"type":"start","source":s}
Start(c, s) ==
    LET key == BufferKey(c, s) IN
    /\ Receiving(c)
    /\ nmsgs' = nmsgs + 1
    /\ source_type' = [source_type EXCEPT ![c] = s]
    /\ buffer_key' = [buffer_key EXCEPT ![c] = key]
    /\ audio_buffers' = SetEmpty(audio_buffers, key)
    /\ outbox' = Send(outbox, c, Msg("started", s, 0))
    /\ hist' = [k \in DOMAIN hist \cup {key} |->
                   IF k = key THEN NewHist ELSE hist[k]]
    /\ stopped' = [stopped EXCEPT ![c] = "no"]
    /\ last' = [kind |-> "start", c |-> c, source |-> s,
                acks |-> HandlerMsgs(outbox[c]),
                prevLen |-> IF key \in DOMAIN audio_buffers
                            THEN ByteLen(audio_buffers[key]) ELSE -1]
    /\ UNCHANGED <<callvars, requests, state, tasks, nconns>>

\* lines 478-487: {"type":"stop"}
Stop(c) ==
    /\ Receiving(c)
    /\ nmsgs' = nmsgs + 1
    /\ audio_buffers' = DelKey(audio_buffers, buffer_key[c])
    /\ outbox' = Send(outbox, c, Msg("stopped", None, 0))
    /\ hist' = [k \in DOMAIN audio_buffers' |-> hist[k]]
    /\ stopped' = [stopped EXCEPT ![c] =
                      IF Truthy(source_type[c]) THEN "session" ELSE "idle"]
    /\ last' = [kind |-> "stop", c |-> c, acks |-> HandlerMsgs(outbox[c]),
                had |-> buffer_key[c] \in DOMAIN audio_buffers]
    /\ UNCHANGED <<callvars, requests, state, source_type, buffer_key, tasks, nconns>>

\* lines 495-528 and 557-565: a binary message of n bytes
Binary(c, n) ==
    LET id      == nmsgs + 1
        message == Payload(id, n)
        auto    == ~Truthy(source_type[c])
        src     == IF auto THEN "microphone" ELSE source_type[c]
        key     == IF auto THEN BufferKey(c, "microphone") ELSE buffer_key[c]
        created == auto /\ key \notin DOMAIN audio_buffers
        bufs    == IF created THEN SetEmpty(audio_buffers, key)
                   ELSE audio_buffers
        hist1   == IF created
                   THEN [k \in DOMAIN bufs |->
                            IF k = key THEN NewHist ELSE hist[k]]
                   ELSE hist
    IN
    /\ Receiving(c)
    /\ nmsgs' = nmsgs + 1
    /\ source_type' = [source_type EXCEPT ![c] = src]
    /\ buffer_key' = [buffer_key EXCEPT ![c] = key]
    /\ IF key \in DOMAIN bufs
       THEN LET f == Feed(bufs[key], message)
                first == Len(tasks) + 1
                new == [i \in 1..Len(f.steps) |->
                          [ws |-> c, source |-> src, chunk |-> f.steps[i].chunk,
                           pc |-> "queued", result |-> NoResult, sent |-> FALSE,
                           closed |-> FALSE, overdue |-> FALSE,
                           afterStop |-> stopped[c]]]
                emitted == [i \in 1..Len(f.steps) |->
                              [task |-> first + i - 1,
                               preLen |-> ByteLen(f.steps[i].pre),
                               afterTrim |-> i = 1 /\ f.trimmed # f.appended]]
                dropped == SliceTo(f.appended,
                                   ByteLen(f.appended) - ByteLen(f.trimmed))
            IN /\ audio_buffers' = SetBuf(bufs, key, f.buf)
               /\ tasks' = tasks \o new
               /\ outbox' = outbox
               /\ hist' = [hist1 EXCEPT ![key] =
                              [fed |-> @.fed \o message,
                               trimmed |-> @.trimmed \o dropped,
                               chunks |-> @.chunks \o emitted]]
               /\ last' = [kind |-> "binary", c |-> c, key |-> key, fed |-> TRUE,
                           before |-> bufs[key], message |-> message,
                           trimmed |-> f.trimmed, steps |-> f.steps,
                           acks |-> HandlerMsgs(outbox[c]),
                           outLen |-> Len(outbox[c]), created |-> created,
                           auto |-> auto,
                           follows |-> IF last.kind = "text" /\ last.c = c
                                       THEN last.text ELSE "-",
                           busy |-> Cardinality({i \in Running :
                                                   tasks[i].ws = c})]
       ELSE \* KeyError at line 504, caught at line 557
            /\ audio_buffers' = bufs
            /\ tasks' = tasks
            /\ outbox' = Send(outbox, c, Msg("error", None, 0))
            /\ hist' = hist1
            /\ last' = [kind |-> "binary", c |-> c, key |-> key, fed |-> FALSE,
                        message |-> message, auto |-> auto]
    /\ UNCHANGED <<callvars, requests, state, stopped, nconns>>

\* lines 567-574: the connection ends; the chunk tasks created on it hold a
\* websocket that is closed from now on
Disconnect(c) ==
    /\ state[c] = "open"
    /\ state' = [state EXCEPT ![c] = "closed"]
    /\ audio_buffers' = DelKey(audio_buffers, buffer_key[c])
    /\ tasks' = CloseWebsocket(tasks, c)
    /\ hist' = [k \in DOMAIN audio_buffers' |-> hist[k]]
    /\ last' = [kind |-> "disconnect", c |-> c]
    /\ UNCHANGED <<callvars, requests, source_type, buffer_key, outbox, nmsgs, nconns, stopped>>

\* lines 488-492: {"type":"ping"}
Ping(c) ==
    /\ Receiving(c)
    /\ nmsgs' = nmsgs + 1
    /\ outbox' = SendAll(outbox, c, PingReplies(c))
    /\ last' = [kind |-> "ping", c |-> c]
    /\ UNCHANGED <<callvars, requests, state, source_type, buffer_key, audio_buffers, tasks, nconns,
                   hist, stopped>>

\* lines 460-465, 492 and 530-565: a text message that is no start, stop or
\* ping.  An exception that left the loop would end the connection as a
\* disconnect does (lines 569-574).
Text(c, text) ==
    LET outcome == TextOutcome(text) IN
    /\ Receiving(c)
    /\ nmsgs' = nmsgs + 1
    /\ state' = IF outcome = "raised" THEN [state EXCEPT ![c] = "closed"]
                ELSE state
    /\ audio_buffers' = IF outcome = "raised"
                        THEN DelKey(audio_buffers, buffer_key[c])
                        ELSE audio_buffers
    /\ tasks' = IF outcome = "raised" THEN CloseWebsocket(tasks, c) ELSE tasks
    /\ hist' = [k \in DOMAIN audio_buffers' |-> hist[k]]
    /\ outbox' = IF outcome = "error"
                 THEN Send(outbox, c, Msg("error", None, 0))
                 ELSE outbox
    /\ last' = [kind |-> "text", c |-> c, text |-> text]
    /\ UNCHANGED <<callvars, requests, source_type, buffer_key, nconns, stopped>>

\* lines 63-66 and 399-404: a free worker takes the oldest queued chunk
Begin(i) ==
    /\ tasks[i].pc = "queued"
    /\ \A j \in 1..(i - 1) : tasks[j].pc # "queued"
    /\ Busy < MAX_WORKERS
    /\ tasks' = [tasks EXCEPT ![i].pc = "running"]
    /\ UNCHANGED <<callvars, requests, state, source_type, buffer_key, audio_buffers, outbox, nmsgs,
                   nconns, hist, stopped, last>>

\* lines 399-440: the worker's transcribe_audio_chunk call ends and the task
\* resumes on the event loop with its result.  The loop wakes tasks in the
\* order their calls ended, so one step stands for both; a send on a closed
\* connection raises and is swallowed (lines 418, 427, 439).
Complete(i, outcome) ==
    LET t == tasks[i]
        open == ~t.closed
        result == transcribe_audio_chunk(t.chunk, outcome)
    IN
    /\ t.pc = "running"
    /\ tasks' = [tasks EXCEPT ![i].pc = "done", ![i].result = result,
                              ![i].sent = open]
    /\ outbox' = IF open
                 THEN SendAll(outbox, t.ws, ChunkReplies(result, t.source, i))
                 ELSE outbox
    /\ UNCHANGED <<callvars, requests, state, source_type, buffer_key, audio_buffers, nmsgs, nconns,
                   hist, stopped, last>>

\* lines 399-404: CALL_DEADLINE seconds have passed since the worker took
\* chunk i and its transcribe_audio_chunk call has not ended.  The await has
\* no timeout (future.result(timeout=30) at line 641 is the one-shot path's
\* alone), so the task goes on awaiting.
Expire(i) ==
    /\ tasks[i].pc = "running"
    /\ ~tasks[i].overdue
    /\ tasks' = [tasks EXCEPT ![i].overdue = TRUE]
    /\ UNCHANGED <<callvars, requests, state, source_type, buffer_key, audio_buffers, outbox, nmsgs,
                   nconns, hist, stopped, last>>

\* ------------------------------------------------------ one-shot requests
\* lines 621-629: content sniffing
IsWebm(n, sniff) == n >= EBML_HEADER_LENGTH /\ sniff \in {"type", "magic"}

\* MinSize, were the container's threshold used for raw PCM too
MinSize_ContainerOnly(is_webm) == MIN_WEBM_REQUEST

\* line 360
MinSize(is_webm) == IF ~is_webm THEN MIN_PCM_REQUEST ELSE MIN_WEBM_REQUEST

EmptyOk == [success |-> TRUE, text |-> "", language |-> "en"]
TextOk == [success |-> TRUE, text |-> "text", language |-> "en"]
Failure == [success |-> FALSE, error |-> "error", text |-> ""]

\* lines 614-616: send_error(400, ...), an error page and no JSON
Refusal == [status |-> 400, body |-> [html |-> "No audio data provided"]]
NoResponse == [status |-> 0, body |-> [html |-> ""]]
\* lines 662-664: send_error(500, ...), an error page and no JSON
ServerError == [status |-> 500, body |-> [html |-> "Internal server error"]]

\* transcribe_audio_request, were a failure of the transcoder or of the
\* inference returned as the empty result
transcribe_audio_request_FailureAsSilence(n, is_webm, outcome) ==
    IF n < MinSize(is_webm)
    THEN [body |-> EmptyOk, transcoded |-> FALSE, inferred |-> FALSE]
    ELSE IF is_webm /\ outcome = "ffmpeg"
    THEN [body |-> EmptyOk, transcoded |-> TRUE, inferred |-> FALSE]
    ELSE [body |-> IF outcome = "speech" THEN TextOk ELSE EmptyOk,
          transcoded |-> is_webm, inferred |-> TRUE]

\* lines 356-393 (with 254-354 and 102-252): what transcribe_audio_request
\* returns for a payload of n bytes, and whether it ran the transcoder and
\* the inference on the way
transcribe_audio_request(n, is_webm, outcome) ==
    IF n < MinSize(is_webm)
    THEN [body |-> EmptyOk, transcoded |-> FALSE, inferred |-> FALSE]
    ELSE IF is_webm /\ outcome = "ffmpeg"
    THEN [body |-> Failure, transcoded |-> TRUE, inferred |-> FALSE]
    ELSE IF ~is_webm /\ n < MIN_PCM_BYTES
    THEN [body |-> Failure, transcoded |-> FALSE, inferred |-> FALSE]
    ELSE [body |-> IF outcome = "speech" THEN TextOk
                   ELSE IF outcome = "nospeech" THEN EmptyOk
                   ELSE Failure,
          transcoded |-> is_webm, inferred |-> TRUE]

Waiting == {r \in 1..Len(requests) : requests[r].pc = "waiting"}

\* lines 607-637 and 662-664: POST /transcribe with a body of n bytes.
\* HTTPServer (line 672) handles one request at a time.  A Content-Length
\* that is not an integer makes int() raise (line 612): the body is not read
\* and the handler answers send_error(500) (lines 662-664).  An empty body is
\* refused (lines 614-616); any other is handed to the executor.
Post(n, sniff, header) ==
    LET over == header = "malformed" \/ n = 0 IN
    /\ Waiting = {}
    /\ sniff = "magic" => n >= EBML_HEADER_LENGTH
    /\ requests' = Append(requests,
          [len |-> n, sniff |-> sniff, header |-> header,
           is_webm |-> header = "integer" /\ IsWebm(n, sniff),
           pc |-> IF over THEN "answered" ELSE "waiting",
           job |-> IF over THEN "none" ELSE "queued",
           transcoded |-> FALSE, inferred |-> FALSE,
           by |-> IF header = "malformed" THEN "error"
                  ELSE IF n = 0 THEN "refusal" ELSE "-",
           response |-> IF header = "malformed" THEN ServerError
                        ELSE IF n = 0 THEN Refusal ELSE NoResponse])
    /\ UNCHANGED <<wsvars, callvars>>

\* lines 63-66 and 633: a free worker takes the oldest queued call
JobBegin(r) ==
    /\ requests[r].job = "queued"
    /\ \A q \in 1..(r - 1) : requests[q].job # "queued"
    /\ Busy < MAX_WORKERS
    /\ requests' = [requests EXCEPT ![r].job = "running"]
    /\ UNCHANGED <<wsvars, callvars>>

\* lines 356-393 and 641-648: the call ends; if its request still waits, the
\* result is the response
JobEnd(r, outcome) ==
    LET q   == requests[r]
        res == transcribe_audio_request(q.len, q.is_webm, outcome)
    IN
    /\ q.job = "running"
    /\ outcome = "ffmpeg" => q.is_webm
    /\ requests' = [requests EXCEPT ![r] =
          [q EXCEPT !.job = "done",
                    !.transcoded = res.transcoded,
                    !.inferred = res.inferred,
                    !.pc = "answered",
                    !.by = IF q.pc = "waiting" THEN "result" ELSE @,
                    !.response = IF q.pc = "waiting"
                                 THEN [status |-> 200, body |-> res.body]
                                 ELSE @]]
    /\ UNCHANGED <<wsvars, callvars>>

\* lines 641 and 649-660: CALL_DEADLINE seconds have passed and the call has
\* not ended (it may not even have begun); the call is left to itself
Timeout(r) ==
    /\ requests[r].pc = "waiting"
    /\ requests' = [requests EXCEPT ![r].pc = "answered",
                                    ![r].by = "timeout",
                                    ![r].response =
                                        [status |-> 500, body |-> Failure]]
    /\ UNCHANGED <<wsvars, callvars>>

\* ------------------------------------------------------ transcription calls
\* payload lengths and kinds of the calls whose files are followed
CallInputs == {<<1000, FALSE>>, <<4000, FALSE>>, <<4000, TRUE>>}

\* what ffmpeg does (lines 218-230): exit 0 with output; a non-zero exit,
\* with or without an output file; exit 0 with no output file or an empty
\* one; no exit within the 30 s of line 222, with or without an output file
FfmpegOutcomes == {"ok", "nonzero", "nonzero_partial", "missing", "empty",
                   "timeout", "timeout_partial"}
\* what writing the WAV file does (lines 119-180)
WriteOutcomes == {"ok", "write_error"}

NoPath == <<>>      \* Python None, where a path is expected
TmpFile(k) == <<k, "webm">>     \* line 198: the compressed input of call k
WavFile(k) == <<k, "wav">>      \* lines 117 and 203: the WAV file of call k

\* lines 185-189, 235-244, 248-252 and 350-354: unlink, if the path is set
\* and the file exists
Unlink(fs, path) == IF path # NoPath /\ path \in fs THEN fs \ {path} ELSE fs

\* lines 102-190: the files after pcm_bytes_to_wav, the path it returns unless
\* it raises, and the files it created
pcm_bytes_to_wav(fs, k, n, outcome) ==
    IF n < MIN_PCM_BYTES
    THEN [files |-> fs, wav_path |-> NoPath, raised |-> TRUE, created |-> {}]
    ELSE LET wav_path == WavFile(k)
             made     == fs \cup {wav_path}
             raised   == outcome # "ok"
         IN [files |-> IF raised THEN Unlink(made, wav_path) ELSE made,
             wav_path |-> IF raised THEN NoPath ELSE wav_path,
             raised |-> raised, created |-> {wav_path}]

\* convert_webm_to_wav, without the finally clause of lines 246-252
convert_webm_to_wav_NoFinally(fs, k, outcome) ==
    LET tmp_path == TmpFile(k)
        wav_path == WavFile(k)
        written  == fs \cup {tmp_path}
        ran      == IF outcome \in {"ok", "nonzero_partial", "empty",
                                    "timeout_partial"}
                    THEN written \cup {wav_path} ELSE written
        raised   == outcome # "ok"
    IN [files |-> IF raised THEN Unlink(Unlink(ran, tmp_path), wav_path)
                  ELSE ran,
        wav_path |-> IF raised THEN NoPath ELSE wav_path,
        raised |-> raised, created |-> ran \ fs]

\* lines 192-252: the files after convert_webm_to_wav, the path it returns
\* unless it raises, and the files it created
convert_webm_to_wav(fs, k, outcome) ==
    LET tmp_path == TmpFile(k)
        wav_path == WavFile(k)
        written  == fs \cup {tmp_path}
        ran      == IF outcome \in {"ok", "nonzero_partial", "empty",
                                    "timeout_partial"}
                    THEN written \cup {wav_path} ELSE written
        raised   == outcome # "ok"
        handled  == IF raised THEN Unlink(Unlink(ran, tmp_path), wav_path)
                    ELSE ran
    IN [files |-> Unlink(handled, tmp_path),
        wav_path |-> IF raised THEN NoPath ELSE wav_path,
        raised |-> raised, created |-> ran \ fs]

\* lines 348-354: the finally clause of transcribe_audio_chunk
Finally(fs, wav_path) == Unlink(fs, wav_path)

\* ---------------------------------------------------------------- segments
NO_SPEECH_THRESHOLD == 50       \* line 322, in hundredths
MIN_SEGMENT_CHARS == 2          \* line 313

\* lines 316-320; a text is a sequence of characters
hallucination_patterns ==
    { <<"t", "h", "a", "n", "k", " ", "y", "o", "u">>,
      <<"t", "h", "a", "n", "k", "s">>,
      <<"s", "u", "b", "s", "c", "r", "i", "b", "e">>,
      <<"p", "l", "e", "a", "s", "e", " ", "s", "u", "b", "s", "c", "r", "i", "b", "e">>,
      <<"l", "i", "k", "e", " ", "a", "n", "d", " ", "s", "u", "b", "s", "c", "r", "i", "b", "e">>,
      <<"t", "h", "a", "n", "k", " ", "y", "o", "u", " ", "f", "o", "r", " ", "w", "a", "t", "c", "h", "i", "n", "g">>,
      <<"t", "h", "a", "n", "k", "s", " ", "f", "o", "r", " ", "w", "a", "t", "c", "h", "i", "n", "g">>,
      <<"p", "l", "e", "a", "s", "e", " ", "l", "i", "k", "e", " ", "a", "n", "d", " ", "s", "u", "b", "s", "c", "r", "i", "b", "e">> }

\* the texts and the no-speech confidences (in hundredths) of the segments
\* the inference returns
SegmentTexts ==
    { <<" ", "o", "k">>,
      <<"I">>,
      <<"T", "h", "a", "n", "k", "s">>,
      <<" ">>,
      <<"o", "k", " ", "t", "h", "a", "n", "k", "s">> }
SegmentProbs == {NO_SPEECH_THRESHOLD, NO_SPEECH_THRESHOLD + 1}
Segments == [text : SegmentTexts, no_speech_prob : SegmentProbs]

\* str.strip(), str.lower(), the operator in and str.join()
RECURSIVE LStrip(_)
LStrip(t) == IF t # <<>> /\ Head(t) = " " THEN LStrip(Tail(t)) ELSE t
RECURSIVE RStrip(_)
RStrip(t) ==
    IF t # <<>> /\ t[Len(t)] = " " THEN RStrip(SubSeq(t, 1, Len(t) - 1)) ELSE t
Strip(t) == RStrip(LStrip(t))
LowerChar(ch) == CASE ch = "T" -> "t" [] ch = "I" -> "i" [] OTHER -> ch
Lower(t) == [i \in 1..Len(t) |-> LowerChar(t[i])]
Contains(t, pattern) ==
    \E i \in 1..(Len(t) - Len(pattern) + 1) :
       SubSeq(t, i, i + Len(pattern) - 1) = pattern
RECURSIVE Join(_)
Join(parts) ==
    IF parts = <<>> THEN <<>>
    ELSE IF Len(parts) = 1 THEN Head(parts)
    ELSE Head(parts) \o <<" ">> \o Join(Tail(parts))

\* lines 312-326: whether the loop appends the text of a segment
Appended(segment) ==
    LET segment_text == Strip(segment.text) IN
    /\ segment_text # <<>>
    /\ Len(segment_text) >= MIN_SEGMENT_CHARS
    /\ ~(segment.no_speech_prob > NO_SPEECH_THRESHOLD)
    /\ ~\E pattern \in hallucination_patterns :
           Contains(Lower(segment_text), pattern)

RECURSIVE TextParts(_)
\* lines 308-327: text_parts after the loop over the segments
TextParts(segments) ==
    IF segments = <<>> THEN <<>>
    ELSE (IF Appended(Head(segments)) THEN <<Strip(Head(segments).text)>>
          ELSE <<>>) \o TextParts(Tail(segments))

\* line 329
FullText(segments) == Strip(Join(TextParts(segments)))

\* ----------------------------------------------------- the steps of a call
NoSegments == <<>>
Active == {k \in 1..Len(calls) : calls[k].pc \in {"convert", "infer"}}

\* lines 254-256, run by a worker of the executor (lines 66, 400 and 633):
\* transcribe_audio_chunk is entered with a payload of n bytes
CallBegin(n, is_webm) ==
    /\ Cardinality(Active) < MAX_WORKERS
    /\ calls' = Append(calls,
          [len |-> n, is_webm |-> is_webm, pc |-> "convert",
           wav_path |-> NoPath, created |-> {}, convert |-> "-",
           segments |-> NoSegments,
           result |-> [kind |-> "pending", text |-> <<>>]])
    /\ UNCHANGED <<wsvars, requests, files>>

\* lines 258-262 and 345-354: the payload is converted; if that raises,
\* wav_path is still None when the finally clause runs
Convert(k, outcome) ==
    LET c   == calls[k]
        res == IF c.is_webm THEN convert_webm_to_wav(files, k, outcome)
               ELSE pcm_bytes_to_wav(files, k, c.len, outcome)
    IN
    /\ c.pc = "convert"
    /\ outcome \in (IF c.is_webm THEN FfmpegOutcomes ELSE WriteOutcomes)
    /\ files' = IF res.raised THEN Finally(res.files, c.wav_path)
                ELSE res.files
    /\ calls' = [calls EXCEPT ![k] =
          [c EXCEPT !.pc = IF res.raised THEN "raised" ELSE "infer",
                    !.wav_path = res.wav_path,
                    !.created = res.created,
                    !.convert = IF ~c.is_webm /\ c.len < MIN_PCM_BYTES
                                THEN "invalid" ELSE outcome,
                    !.result = IF res.raised
                               THEN [kind |-> "raise", text |-> <<>>]
                               ELSE @]]
    /\ UNCHANGED <<wsvars, requests>>

\* lines 264-354: the inference raises, or returns segments, of which the
\* text is made; the finally clause removes the WAV file
Infer(k, raises, segments) ==
    LET c         == calls[k]
        full_text == FullText(segments)
    IN
    /\ c.pc = "infer"
    /\ raises => segments = NoSegments
    /\ files' = Finally(files, c.wav_path)
    /\ calls' = [calls EXCEPT ![k] =
          [c EXCEPT !.pc = IF raises THEN "raised" ELSE "returned",
                    !.segments = segments,
                    !.result = IF raises THEN [kind |-> "raise", text |-> <<>>]
                               ELSE IF full_text = <<>>
                               THEN [kind |-> "none", text |-> <<>>]
                               ELSE [kind |-> "text", text |-> full_text]]]
    /\ UNCHANGED <<wsvars, requests>>

Next ==
    \/ \E c \in Conns : Connect(c)
    \/ nmsgs < PoolMsgs /\ \E c \in Conns, s \in Sources : Start(c, s)
    \/ nmsgs < PoolMsgs /\ \E c \in Conns : Stop(c)
    \/ nmsgs < PoolMsgs /\ \E c \in Conns, n \in PoolSizes : Binary(c, n)
    \/ \E c \in Conns : Disconnect(c)
    \/ \E i \in 1..Len(tasks) : Begin(i)
    \/ \E i \in 1..Len(tasks), o \in Outcomes : Complete(i, o)

\* The server: connections, their receive loops and the worker pool.
Spec == Init /\ [][Next]_vars

ReceiveNext ==
    \/ \E c \in Conns : Connect(c)
    \/ nmsgs < MaxMsgs /\ \E c \in Conns, s \in Sources : Start(c, s)
    \/ nmsgs < MaxMsgs /\ \E c \in Conns : Stop(c)
    \/ nmsgs < MaxMsgs /\ \E c \in Conns, n \in MsgSizes : Binary(c, n)
    \/ \E c \in Conns : Disconnect(c)

\* The receive loops alone, over a wider range of message lengths: the chunk
\* tasks they create are left pending.
ReceiveSpec == Init /\ [][ReceiveNext]_vars

ReuseNext ==
    \/ nconns < MaxConnects /\ \E c \in Conns : Connect(c)
    \/ nconns < MaxConnects /\ \E c \in Conns : Reconnect(c)
    \/ nmsgs < MaxMsgs /\ \E c \in Conns, s \in Sources : Start(c, s)
    \/ nmsgs < MaxMsgs /\ \E c \in Conns : Stop(c)
    \/ nmsgs < MaxMsgs /\ \E c \in Conns, n \in ReuseSizes : Binary(c, n)
    \/ \E c \in Conns : Disconnect(c)

\* The receive loops, with client addresses that are used again after their
\* connection has ended.
ReuseSpec == Init /\ [][ReuseNext]_vars

ControlNext ==
    \/ \E c \in Conns : Connect(c)
    \/ nmsgs < CtlMsgs /\ \E c \in Conns, s \in Sources : Start(c, s)
    \/ nmsgs < CtlMsgs /\ \E c \in Conns : Stop(c)
    \/ nmsgs < CtlMsgs /\ \E c \in Conns : Ping(c)
    \/ nmsgs < CtlMsgs /\ \E c \in Conns, text \in Texts : Text(c, text)
    \/ nmsgs < CtlMsgs /\ \E c \in Conns, n \in CtlSizes : Binary(c, n)
    \/ \E c \in Conns : Disconnect(c)

HttpNext ==
    \/ Len(requests) < MaxPosts /\ \E n \in BodySizes, sniff \in Sniffs :
                                    Post(n, sniff, "integer")
    \/ Len(requests) < MaxPosts /\ \E n \in MalformedSizes :
                                    Post(n, "none", "malformed")
    \/ \E r \in 1..Len(requests) : JobBegin(r)
    \/ \E r \in 1..Len(requests), o \in CallOutcomes : JobEnd(r, o)
    \/ \E r \in 1..Len(requests) : Timeout(r)

\* segments of a call whose files are followed
FileSegments == {NoSegments, <<[text |-> <<"o", "k">>, no_speech_prob |-> 0]>>}

FileNext ==
    \/ Len(calls) < MaxCalls /\ \E i \in CallInputs : CallBegin(i[1], i[2])
    \/ \E k \in 1..Len(calls), o \in FfmpegOutcomes \cup WriteOutcomes :
          Convert(k, o)
    \/ \E k \in 1..Len(calls) : Infer(k, TRUE, NoSegments)
    \/ \E k \in 1..Len(calls), segs \in FileSegments : Infer(k, FALSE, segs)

\* Transcription calls and their temporary files.
FileSpec == Init /\ [][FileNext]_vars

SegmentLists == UNION {[1..n -> Segments] : n \in 0..MaxSegments}

SegmentNext ==
    \/ calls = <<>> /\ CallBegin(4000, FALSE)
    \/ \E k \in 1..Len(calls) : Convert(k, "ok")
    \/ \E k \in 1..Len(calls), segs \in SegmentLists : Infer(k, FALSE, segs)

\* One transcription call and the segments its inference returns.
SegmentSpec == Init /\ [][SegmentNext]_vars

ChunkNext ==
    \/ \E c \in Conns : Connect(c)
    \/ nmsgs < ChunkMsgs /\ \E c \in Conns, s \in Sources : Start(c, s)
    \/ nmsgs < ChunkMsgs /\ \E c \in Conns : Stop(c)
    \/ nmsgs < ChunkMsgs /\ \E c \in Conns, n \in ChunkSizes : Binary(c, n)
    \/ \E c \in Conns : Disconnect(c)

\* The receive loops over message lengths that are odd, that end a chunk
\* exactly and that overflow the buffer.
ChunkSpec == Init /\ [][ChunkNext]_vars

\* The one-shot path: the requests, one at a time, and the worker pool.
HttpSpec == Init /\ [][HttpNext]_vars

DeadlineNext ==
    \/ \E c \in Conns : Connect(c)
    \/ nmsgs < PoolMsgs /\ \E c \in Conns, n \in PoolSizes : Binary(c, n)
    \/ \E c \in Conns : Disconnect(c)
    \/ \E i \in 1..Len(tasks) : Begin(i)
    \/ \E i \in 1..Len(tasks) : Expire(i)
    \/ \E i \in 1..Len(tasks), o \in Outcomes : Complete(i, o)

\* The server with inference calls that may outlast the deadline, or never
\* end (no step of a behaviour is bound to happen).
DeadlineSpec == Init /\ [][DeadlineNext]_vars

BurstNext ==
    \/ \E c \in Conns : Connect(c)
    \/ nmsgs < BurstMsgs /\ \E c \in Conns : Stop(c)
    \/ nmsgs < BurstMsgs /\ \E c \in Conns, n \in BurstSizes : Binary(c, n)
    \/ \E c \in Conns : Disconnect(c)
    \/ \E i \in 1..Len(tasks) : Begin(i)
    \/ \E i \in 1..Len(tasks), o \in BurstOutcomes : Complete(i, o)

\* The server under bursts: every binary message holds two chunks, so that
\* chunks queue up behind the workers.
BurstSpec == Init /\ [][BurstNext]_vars

\* The receive loops, with every kind of message a client may send.
ControlSpec == Init /\ [][ControlNext]_vars


\* ------------------------------------------------- relations on byte strings
\* a is the first ByteLen(a) bytes of b
IsPrefix(a, b) ==
    \/ a = <<>>
    \/ /\ Len(a) <= Len(b)
       /\ \A i \in 1..(Len(a) - 1) : a[i] = b[i]
       /\ LET x == a[Len(a)]
              y == b[Len(a)]
          IN x.id = y.id /\ x.off = y.off /\ x.len <= y.len

\* a is the last ByteLen(a) bytes of b
IsSuffix(a, b) ==
    \/ a = <<>>
    \/ /\ Len(a) <= Len(b)
       /\ LET d == Len(b) - Len(a)
              x == a[1]
              y == b[d + 1]
          IN /\ \A i \in 2..Len(a) : a[i] = b[d + i]
             /\ x.id = y.id /\ x.off >= y.off /\ x.off + x.len = y.off + y.len

\* the last n bytes of b
LastBytes(b, n) == SliceFrom(b, ByteLen(b) - n)

Fed == last.kind = "binary" /\ last.fed

\* the chunks emitted from session buffer key since it was created or reset
ChunksOf(key) == hist[key].chunks
ChunkBytes(e) == tasks[e.task].chunk

\* ------------------------------------------------------------------ claims
\* C1: while a binary message is handled, whenever the session buffer holds
\* L >= MIN_CHUNK_SIZE bytes the chunk emitted is exactly its first
\* MIN_CHUNK_SIZE bytes; afterwards the buffer is the suffix of the
\* pre-extraction buffer from offset MIN_CHUNK_SIZE - OVERLAP_SIZE (length
\* L - MIN_CHUNK_SIZE + OVERLAP_SIZE) if L > MIN_CHUNK_SIZE and empty if
\* L = MIN_CHUNK_SIZE.  Feeding MIN_CHUNK_SIZE + k bytes,
\* 0 < k < MIN_CHUNK_SIZE - OVERLAP_SIZE, into an empty buffer emits one chunk
\* and leaves k + OVERLAP_SIZE bytes.
C1_ChunkAndRemainder ==
    Fed =>
      /\ \A i \in 1..Len(last.steps) :
            LET st == last.steps[i]
                L  == ByteLen(st.pre)
            IN /\ L >= MIN_CHUNK_SIZE
               /\ ByteLen(st.chunk) = MIN_CHUNK_SIZE
               /\ IsPrefix(st.chunk, st.pre)
               /\ IF L > MIN_CHUNK_SIZE
                  THEN /\ IsSuffix(st.post, st.pre)
                       /\ ByteLen(st.post) = L - MIN_CHUNK_SIZE + OVERLAP_SIZE
                  ELSE st.post = <<>>
               /\ tasks[Len(tasks) - Len(last.steps) + i].chunk = st.chunk
      /\ LET k == ByteLen(last.message) - MIN_CHUNK_SIZE
         IN (last.before = <<>> /\ 0 < k /\ k < MIN_CHUNK_SIZE - OVERLAP_SIZE)
            => /\ Len(last.steps) = 1
               /\ ByteLen(audio_buffers[last.key]) = k + OVERLAP_SIZE

\* C1 witness: MIN_CHUNK_SIZE + 1000 bytes were fed into an empty buffer, one
\* chunk was cut and 1000 + OVERLAP_SIZE bytes stay.
C1_Witness ==
    /\ Fed
    /\ last.before = <<>>
    /\ ByteLen(last.message) = MIN_CHUNK_SIZE + 1000
    /\ Len(last.steps) = 1
    /\ ByteLen(audio_buffers[last.key]) = 1000 + OVERLAP_SIZE

\* C3 as stated: of any two chunks emitted consecutively from the same session
\* buffer, the last OVERLAP_SIZE bytes of the earlier are the first
\* OVERLAP_SIZE bytes of the later.
C3_OverlapAlways ==
    \A key \in DOMAIN hist :
      \A i \in 1..(Len(ChunksOf(key)) - 1) :
         LastBytes(ChunkBytes(ChunksOf(key)[i]), OVERLAP_SIZE)
            = SliceTo(ChunkBytes(ChunksOf(key)[i + 1]), OVERLAP_SIZE)

\* C3 amended: of two chunks emitted consecutively from the same session
\* buffer, the last OVERLAP_SIZE bytes of the earlier are the first
\* OVERLAP_SIZE bytes of the later, provided the earlier was cut from a buffer
\* holding more than MIN_CHUNK_SIZE bytes and no overflow trimming happened
\* between the two extractions.
C3_OverlapUnlessExactOrTrimmed ==
    \A key \in DOMAIN hist :
      \A i \in 1..(Len(ChunksOf(key)) - 1) :
         LET e1 == ChunksOf(key)[i]
             e2 == ChunksOf(key)[i + 1]
         IN (e1.preLen > MIN_CHUNK_SIZE /\ ~e2.afterTrim)
            => LastBytes(ChunkBytes(e1), OVERLAP_SIZE)
                  = SliceTo(ChunkBytes(e2), OVERLAP_SIZE)

\* C3 witness: two consecutive chunks of one session buffer that came out of
\* different binary messages, the earlier cut from a longer buffer, with no
\* trimming in between.
C3_Witness ==
    \E key \in DOMAIN hist :
      \E i \in 1..(Len(ChunksOf(key)) - 1) :
         LET e1 == ChunksOf(key)[i]
             e2 == ChunksOf(key)[i + 1]
         IN /\ e1.preLen > MIN_CHUNK_SIZE
            /\ ~e2.afterTrim
            /\ Len(ChunkBytes(e2)) > 1


\* C5: on every binary message, with A the buffer length right after the
\* append, exactly max(0, A - MAX_BUFFER_SIZE) bytes are dropped; they are
\* the oldest ones, they are dropped before any chunk is extracted from that
\* message, and the overflow sends the client nothing and leaves the
\* connection open.
C5_OverflowDropsOldest ==
    Fed =>
      LET all  == last.before \o last.message
          A    == ByteLen(all)
          kept == last.trimmed
      IN /\ A - ByteLen(kept) = Max2(0, A - MAX_BUFFER_SIZE)
         /\ IsSuffix(kept, all)
         /\ last.steps # <<>> => last.steps[1].pre = kept
         /\ HandlerMsgs(outbox[last.c]) = last.acks
         /\ state[last.c] = "open"

\* C5 witness: a message overflowed a buffer that already held bytes, so that
\* bytes of an earlier message and of this one were dropped, and chunks were
\* cut from what was kept.
C5_Witness ==
    /\ Fed
    /\ last.before # <<>>
    /\ ByteLen(last.before) + ByteLen(last.message) > MAX_BUFFER_SIZE
    /\ ByteLen(last.trimmed) = MAX_BUFFER_SIZE
    /\ last.trimmed[1].id = last.message[1].id
    /\ Len(last.steps) = 4

\* ------------------------------------- where a byte lies in the input stream
\* the stream position of the first byte of message id, in the stream fed
Base(fed, id) == ByteLen(SelectSeq(fed, LAMBDA r : r.id < id))

\* the stream positions [s, e) of run r
Interval(fed, r) ==
    [s |-> Base(fed, r.id) + r.off, e |-> Base(fed, r.id) + r.off + r.len]

Intervals(fed, b) == {Interval(fed, b[i]) : i \in 1..Len(b)}

In(S, p) == \E I \in S : I.s <= p /\ p < I.e

StreamOf(key) == hist[key].fed
Emitted(key) ==
    UNION {Intervals(StreamOf(key), ChunkBytes(ChunksOf(key)[i])) :
              i \in 1..Len(ChunksOf(key))}
Dropped(key) == Intervals(StreamOf(key), hist[key].trimmed)
Held(key) == Intervals(StreamOf(key), audio_buffers[key])

\* every interval starts and ends at a point, so the bytes between two
\* neighbouring points lie together inside or outside any interval
Points(S, n) == {0, n} \cup {I.s : I \in S} \cup {I.e : I \in S}

\* the starting points among pts that are not in gone: the first of them
\* is where the bytes of the stream not yet emitted (nor dropped) begin
WithheldFrom(open, n) ==
    IF open = {} THEN n ELSE CHOOSE p \in open : \A q \in open : p <= q

Withheld(key) ==
    LET n    == ByteLen(StreamOf(key))
        G    == Emitted(key) \cup Dropped(key)
        pts  == Points(G \cup Held(key), n)
        open == {p \in pts : p < n /\ ~In(G, p)}
    IN n - WithheldFrom(open, n)

\* the bytes of b are in stream order
InOrder(fed, b) ==
    \A i, j \in 1..Len(b) :
       i < j => Interval(fed, b[i]).e <= Interval(fed, b[j]).s

\* what C4 says of session buffer key, with at most `tail` bytes withheld:
\* chunks and buffer keep the stream's order, each chunk starts and ends
\* after the one before, no byte is lost unless trimmed, and the bytes
\* emitted or trimmed are the whole stream but a tail
StreamKept(key, tail) ==
    LET fed    == StreamOf(key)
        n      == ByteLen(fed)
        G      == Emitted(key) \cup Dropped(key)
        H      == Held(key)
        starts == {p \in Points(G \cup H, n) : p < n}
        gone   == {p \in starts : In(G, p)}
    IN
    /\ \A i \in 1..Len(ChunksOf(key)) :
          InOrder(fed, ChunkBytes(ChunksOf(key)[i]))
    /\ InOrder(fed, audio_buffers[key])
    /\ \A i \in 1..(Len(ChunksOf(key)) - 1) :
          LET a == ChunkBytes(ChunksOf(key)[i])
              b == ChunkBytes(ChunksOf(key)[i + 1])
          IN /\ Interval(fed, a[1]).s < Interval(fed, b[1]).s
             /\ Interval(fed, a[Len(a)]).e < Interval(fed, b[Len(b)]).e
    /\ \A p \in starts \ gone : In(H, p)
    /\ \A p \in starts \ gone, q \in gone : q < p
    /\ n - WithheldFrom(starts \ gone, n) <= tail

\* C4 as stated: at every snapshot between messages, the emitted chunks'
\* non-overlapping portions, concatenated, are the input stream fed to the
\* session buffer so far but for a withheld tail of at most OVERLAP_SIZE
\* bytes; no byte is lost or reordered unless overflow trimming dropped it.
C4_TailAtMostOverlap ==
    \A key \in DOMAIN hist : StreamKept(key, OVERLAP_SIZE)

\* C4 amended: the same, with a withheld tail of fewer than MIN_CHUNK_SIZE
\* bytes.
C4_TailBelowChunk ==
    \A key \in DOMAIN hist : StreamKept(key, MIN_CHUNK_SIZE - 1)

\* C4 witness: a session buffer fed by several messages, with chunks emitted,
\* bytes trimmed, and more than OVERLAP_SIZE bytes withheld.
C4_Witness ==
    \E key \in DOMAIN hist :
       /\ Len(StreamOf(key)) > 1
       /\ ChunksOf(key) # <<>>
       /\ hist[key].trimmed # <<>>
       /\ Withheld(key) > OVERLAP_SIZE


\* -------------------------------------------------------- messages of a task
\* the messages sent to the client for chunk task i
RepliesTo(i) == SelectSeq(outbox[tasks[i].ws], LAMBDA m : m.task = i)

\* task i ended while its connection was open
Answered(i) == tasks[i].pc = "done" /\ tasks[i].sent

\* the message the receive loop of c sent last
LastAck(c) ==
    LET own == SelectSeq(outbox[c], LAMBDA m : m.task = 0) IN own[Len(own)]

\* C2 as stated: for every chunk whose transcription succeeds with empty
\* text, the client is sent a silence message with the chunk's source, and
\* no error message.
C2_EmptyTextIsSilence ==
    \A i \in 1..Len(tasks) :
       (Answered(i) /\ tasks[i].result.kind = "None")
          => RepliesTo(i) = <<Msg("silence", tasks[i].source, i)>>

\* every chunk whose inference raised, answered on an open connection, got
\* one error message carrying its source and nothing else
C6_FailureReported ==
    \A i \in 1..Len(tasks) :
       (Answered(i) /\ tasks[i].result.kind = "raise")
          => RepliesTo(i) = <<Msg("error", tasks[i].source, i)>>

\* the step in which a chunk's inference raises changes no connection, no
\* current source, no session buffer and no other task
C6_FailureIsolated ==
    \A i \in 1..Len(tasks) :
       (tasks[i].pc = "running" /\ tasks'[i].pc = "done"
          /\ tasks'[i].result.kind = "raise")
       => /\ UNCHANGED <<state, source_type, buffer_key, audio_buffers>>
          /\ \A j \in 1..Len(tasks) : j # i => tasks'[j] = tasks[j]
          /\ Len(tasks') = Len(tasks)

\* C6: when inference raises for a chunk, the client is sent exactly one
\* error message with the chunk's source for it; the failure neither closes
\* the connection nor changes any session buffer or the connection's current
\* source, so that later binary messages are accumulated, chunked and
\* submitted as before.
C6_ErrorForFailedChunk == [](C6_FailureReported) /\ [][C6_FailureIsolated]_vars

\* C6 witness: a chunk's inference raised, its error message was sent, and a
\* later binary message on the same connection was fed to the buffer and a
\* chunk of it submitted.
C6_Witness ==
    /\ Fed
    /\ last.steps # <<>>
    /\ \E j \in 1..last.outLen :
          LET m == outbox[last.c][j]
          IN m.type = "error" /\ m.task > 0 /\ tasks[m.task].result.kind = "raise"

\* C7: for every chunk emitted on a connection that stays open, once its
\* inference call has returned or raised exactly one message is sent for it,
\* a transcription, a silence or an error; before that, none.
C7_OneMessagePerChunk ==
    \A i \in 1..Len(tasks) :
       /\ Answered(i)
             => /\ Len(RepliesTo(i)) = 1
                /\ RepliesTo(i)[1].type \in {"transcription", "silence", "error"}
       /\ tasks[i].pc # "done" => RepliesTo(i) = <<>>

\* C7 witness: on one open connection a chunk whose call returned None and
\* one whose call returned text or raised have both been answered.
C7_Witness ==
    \E i, j \in 1..Len(tasks) :
       /\ tasks[i].ws = tasks[j].ws
       /\ Answered(i) /\ tasks[i].result.kind = "None"
       /\ Answered(j) /\ tasks[j].result.kind \in {"dict", "raise"}
       /\ state[tasks[i].ws] = "open"

\* C8: the registry (a dict) holds at most one session buffer per
\* (connection, source); a start for a source that already has a buffer replaces it with
\* an empty one (its bytes are discarded), leaves every other buffer as it
\* was, and is acknowledged with a started message carrying that source.
C8_StartResets ==
    /\ \A c \in Conns, s \in Sources :
          Cardinality({k \in DOMAIN audio_buffers : k = BufferKey(c, s)}) <= 1
    /\ last.kind = "start" =>
         LET key == BufferKey(last.c, last.source)
         IN /\ key \in DOMAIN audio_buffers
            /\ audio_buffers[key] = <<>>
            /\ buffer_key[last.c] = key
            /\ LastAck(last.c) = Msg("started", last.source, 0)
            /\ HandlerMsgs(outbox[last.c]) = last.acks + 1

\* C8 witness: a start for a source whose buffer held bytes.
C8_Witness ==
    /\ last.kind = "start"
    /\ last.prevLen > 0

\* C9 as stated: after a connection disconnects, the registry holds no
\* session buffer of that connection, whatever sources were started on it.
C9_NoBufferAfterDisconnect ==
    \A c \in Conns :
       state[c] = "closed" => \A k \in DOMAIN audio_buffers : k[1] # c

\* what a stop does: the current session buffer is gone from the registry
\* and the receive loop has sent one message, stopped
C10_StopEffect ==
    last.kind = "stop" =>
       /\ buffer_key[last.c] \notin DOMAIN audio_buffers
       /\ LastAck(last.c) = Msg("stopped", None, 0)
       /\ HandlerMsgs(outbox[last.c]) = last.acks + 1

\* C10 as stated: a stop removes the current session buffer and is
\* acknowledged with a stopped message; from then until the next start on
\* that connection no binary message causes a chunk to be emitted.
C10_NoChunkAfterStop ==
    /\ C10_StopEffect
    /\ \A i \in 1..Len(tasks) : tasks[i].afterStop = "no"

\* C10 amended: a stop removes the current session buffer and is
\* acknowledged with a stopped message; if the connection had a current
\* source when the stop arrived, no binary message causes a chunk to be
\* emitted from then until the next start on that connection.
C10_NoChunkAfterStopOfSession ==
    /\ C10_StopEffect
    /\ \A i \in 1..Len(tasks) : tasks[i].afterStop # "session"

\* C10 witness: a connection was stopped while it had a source and a buffer,
\* and a binary message of a chunk's length or more has been handled since.
C10_Witness ==
    /\ last.kind = "binary"
    /\ stopped[last.c] = "session"
    /\ ~last.fed
    /\ ByteLen(last.message) >= MIN_CHUNK_SIZE

\* C11 as stated: a binary message on a connection on which no start has
\* been received auto-starts the session: an empty session buffer with the
\* source "microphone" is created, the bytes are accumulated and chunked
\* exactly as after a start with source "microphone", and what results is
\* tagged "microphone".
C11_AutoStartAsStart ==
    (last.kind = "binary" /\ last.auto) =>
       LET key == BufferKey(last.c, "microphone")
           f   == Feed(<<>>, last.message)
       IN /\ last.fed
          /\ last.before = <<>>
          /\ source_type[last.c] = "microphone"
          /\ buffer_key[last.c] = key
          /\ audio_buffers[key] = f.buf
          /\ last.steps = f.steps
          /\ \A i \in 1..Len(f.steps) :
                LET t == tasks[Len(tasks) - Len(f.steps) + i]
                IN t.ws = last.c /\ t.source = "microphone"
                   /\ t.chunk = f.steps[i].chunk

\* ------------------------------------------------ steps of the receive loop
\* this step is the handling of one client message of the given kind
Handles(kind) == nmsgs' = nmsgs + 1 /\ last'.kind = kind

\* C12 as stated: a text message that is no well-formed start, stop or ping
\* (invalid JSON, JSON that is no object, an object with an unknown or missing
\* type) is ignored: the server sends nothing in response, the current source
\* and all session buffers are unchanged, and the connection stays open.
C12_TextIgnored ==
    [][Handles("text") =>
          /\ outbox' = outbox
          /\ UNCHANGED <<source_type, audio_buffers>>
          /\ state'[last'.c] = "open"]_vars

\* C13: a text message that is not valid JSON never ends the connection,
\* never causes a chunk to be emitted and never changes a session buffer;
\* nothing the handling of later messages depends on is changed by it.
C13_InvalidJsonHarmless ==
    [][(Handles("text") /\ last'.text = "invalid") =>
          UNCHANGED <<state, source_type, buffer_key, audio_buffers, tasks>>]_vars

\* C13 witness: a binary message that came right after a text that is not
\* JSON was appended to the bytes buffered before that text, and a chunk was
\* cut from the two.
C13_Witness ==
    /\ Fed
    /\ last.follows = "invalid"
    /\ last.before # <<>>
    /\ last.steps # <<>>
    /\ state[last.c] = "open"

\* C14: in every state of an open connection a ping is answered with exactly
\* one pong and changes nothing else: connections, current sources, session
\* buffers and the chunks in flight are left as they were.
C14_PingPong ==
    [][Handles("ping") =>
          /\ outbox' = [outbox EXCEPT ![last'.c] =
                            Append(@, Msg("pong", None, 0))]
          /\ UNCHANGED <<state, source_type, buffer_key, audio_buffers,
                         tasks>>]_vars

\* C14 witness: a ping was handled on a streaming connection whose buffer
\* holds bytes and which has a chunk in flight.
C14_Witness ==
    /\ last.kind = "ping"
    /\ buffer_key[last.c] \in DOMAIN audio_buffers
    /\ audio_buffers[buffer_key[last.c]] # <<>>
    /\ \E i \in 1..Len(tasks) : tasks[i].ws = last.c /\ tasks[i].pc # "done"

\* C15: a zero-length binary message fed to a session buffer that exists
\* emits no chunk and leaves the buffer (and every other buffer) as it was,
\* whatever came before.
C15_ZeroBytesNoEffect ==
    [][(Handles("binary") /\ last'.fed /\ last'.message = <<>>
          /\ ~last'.created) =>
          UNCHANGED <<audio_buffers, tasks>>]_vars

\* C15 witness: a zero-length binary message was fed to a buffer that held
\* MIN_CHUNK_SIZE - OVERLAP_SIZE bytes or more.
C15_Witness ==
    /\ Fed
    /\ last.message = <<>>
    /\ ~last.created
    /\ ByteLen(last.before) >= MIN_CHUNK_SIZE - OVERLAP_SIZE

\* ------------------------------------------------------ steps of chunk tasks
\* in this step the inference call of chunk task i ends
Completes(i) == tasks[i].pc = "running" /\ tasks'[i].pc = "done"

\* where in the messages sent to connection c the message m stands (0: not)
IndexOf(c, m) ==
    LET at == {k \in 1..Len(outbox[c]) : outbox[c][k] = m}
    IN IF at = {} THEN 0 ELSE CHOOSE k \in at : \A j \in at : k <= j

\* where the message for chunk task i stands (0: none was sent)
ReplyIndex(i) ==
    LET c  == tasks[i].ws
        at == {k \in 1..Len(outbox[c]) : outbox[c][k].task = i}
    IN IF at = {} THEN 0 ELSE CHOOSE k \in at : TRUE

\* C16: the receive loop of a connection never waits for an inference
\* result: whatever the state of that connection's chunks and of the workers,
\* the loop of an open connection takes the next message, binary or text,
\* and a start, a stop or a ping can be handled and acknowledged.
C16_ReceiveNeverWaits ==
    \A c \in Conns :
       state[c] = "open" =>
          /\ Receiving(c)
          /\ ENABLED Ping(c)
          /\ ENABLED Stop(c)
          /\ \A s \in Sources : ENABLED Start(c, s)

\* C16 witness: a binary message was handled, and chunks of it were emitted
\* and submitted, while every worker was running a chunk of that connection.
C16_Witness ==
    /\ Fed
    /\ last.steps # <<>>
    /\ last.busy = MAX_WORKERS
    /\ \E i \in 1..Len(tasks) : tasks[i].ws = last.c /\ tasks[i].pc = "queued"

\* C17: result messages are sent in completion order: in the step in which
\* the inference call of a chunk ends, its message is put after all those
\* sent to the connection before, whatever the state of the chunks submitted
\* earlier; nothing else is sent or moved.
C17_SentOnCompletion ==
    [][\A i \in 1..Len(tasks) :
          (Completes(i) /\ ~tasks[i].closed) =>
             LET c == tasks[i].ws
             IN /\ Len(outbox'[c]) = Len(outbox[c]) + 1
                /\ SubSeq(outbox'[c], 1, Len(outbox[c])) = outbox[c]
                /\ outbox'[c][Len(outbox'[c])].task = i
                /\ \A d \in Conns \ {c} : outbox'[d] = outbox[d]]_vars

\* C17 witness: of two chunks emitted by one connection, the message for the
\* later one was sent before the message for the earlier one.
C17_Witness ==
    \E i, j \in 1..Len(tasks) :
       /\ i < j
       /\ tasks[i].ws = tasks[j].ws
       /\ ReplyIndex(i) > 0
       /\ ReplyIndex(j) > 0
       /\ ReplyIndex(j) < ReplyIndex(i)

\* C18: a stop or a disconnect cancels no chunk that was submitted: the step
\* leaves every chunk task where it was, a task is queued, running or done
\* and nothing else, and a running one can always end.  A chunk that ends on
\* an open connection has its message sent, stopped or not; one that ends
\* after the disconnect has none, and its ending changes no connection, no
\* session buffer, no message sent and no other task.
C18_NoCancel ==
    [][/\ \A i \in 1..Len(tasks) :
             /\ tasks[i].pc \in {"queued", "running", "done"}
             /\ tasks[i].pc = "running" =>
                   \E o \in BurstOutcomes : ENABLED Complete(i, o)
       /\ (Handles("stop") \/ state' # state) =>
             /\ Len(tasks') = Len(tasks)
             /\ \A i \in 1..Len(tasks) :
                   /\ tasks'[i].pc = tasks[i].pc
                   /\ tasks'[i].chunk = tasks[i].chunk
       /\ \A i \in 1..Len(tasks) :
             Completes(i) =>
                IF tasks[i].closed
                THEN /\ UNCHANGED <<state, source_type, buffer_key,
                                    audio_buffers, outbox>>
                     /\ \A j \in 1..Len(tasks) : j # i => tasks'[j] = tasks[j]
                ELSE /\ Len(outbox'[tasks[i].ws]) = Len(outbox[tasks[i].ws]) + 1
                     /\ outbox'[tasks[i].ws][Len(outbox'[tasks[i].ws])].type
                           \in {"transcription", "error"}]_vars

\* C18 witness: of two chunks submitted before a stop, one ended while the
\* connection was open and its message was sent after the stopped message;
\* the other ended after the disconnect and no message was sent for it.
C18_Witness ==
    \E i, j \in 1..Len(tasks) :
       LET c == tasks[i].ws
       IN /\ tasks[j].ws = c
          /\ tasks[i].afterStop = "no"
          /\ IndexOf(c, Msg("stopped", None, 0)) > 0
          /\ ReplyIndex(i) > IndexOf(c, Msg("stopped", None, 0))
          /\ tasks[j].pc = "done"
          /\ ~tasks[j].sent
          /\ ReplyIndex(j) = 0

\* C19 as stated: a streaming chunk whose inference call has not ended within
\* CALL_DEADLINE seconds does not go on waiting: its task ends then with a
\* failure, for which the client is sent an error message.
C19_DeadlineEndsTask ==
    \A i \in 1..Len(tasks) :
       tasks[i].overdue =>
          /\ tasks[i].pc = "done"
          /\ tasks[i].result.kind = "raise"
          /\ ~tasks[i].closed => RepliesTo(i) = <<Msg("error", tasks[i].source, i)>>

\* -------------------------------------------------------- one-shot requests
\* the payload of request q is shorter than the threshold: 2000 bytes for raw
\* PCM, 1000 bytes for a recognized container
Short(q) ==
    q.len < (IF q.is_webm THEN MIN_WEBM_REQUEST ELSE MIN_PCM_REQUEST)

\* no transcoder and no inference was run for request q
NothingInvoked(q) == ~q.transcoded /\ ~q.inferred

\* C20 as stated: a one-shot request whose payload is shorter than the
\* threshold always returns {success: true, text: "", language: "en"} and
\* never invokes the transcoder or the inference, whatever the payload and
\* the declared content type.
C20_ShortAlwaysEmpty ==
    \A r \in 1..Len(requests) :
       Short(requests[r]) =>
          /\ NothingInvoked(requests[r])
          /\ requests[r].pc = "answered" =>
                requests[r].response = [status |-> 200, body |-> EmptyOk]

\* C20 amended: a one-shot request whose Content-Length is an integer and
\* whose payload is not empty and shorter than the threshold never invokes
\* the transcoder or the inference, and its response is {success: true,
\* text: "", language: "en"} unless the wait of CALL_DEADLINE seconds ends
\* before its call has, which gives the failure response of the timeout.
C20_ShortEmptyOrTimeout ==
    \A r \in 1..Len(requests) :
       (Short(requests[r]) /\ requests[r].len > 0
                           /\ requests[r].header = "integer") =>
          /\ NothingInvoked(requests[r])
          /\ requests[r].pc = "answered" =>
                \/ /\ requests[r].by = "result"
                   /\ requests[r].response = [status |-> 200, body |-> EmptyOk]
                \/ /\ requests[r].by = "timeout"
                   /\ requests[r].response = [status |-> 500, body |-> Failure]

\* C20 witness: a recognized container shorter than its threshold was
\* answered with the empty result, its call having run; a raw PCM payload
\* of a length between the two thresholds was answered by the timeout,
\* its call not having ended.
C20_Witness ==
    \E r1, r2 \in 1..Len(requests) :
       /\ requests[r1].is_webm
       /\ Short(requests[r1])
       /\ requests[r1].by = "result"
       /\ requests[r1].job = "done"
       /\ ~requests[r2].is_webm
       /\ requests[r2].len >= MIN_WEBM_REQUEST
       /\ Short(requests[r2])
       /\ requests[r2].by = "timeout"

\* the call of request q, ending with outcome o, fails: the transcoder does,
\* or the inference raises
CallFails(q, o) ==
    /\ ~Short(q)
    /\ \/ q.is_webm /\ o = "ffmpeg"
       \/ ~q.is_webm /\ q.len < MIN_PCM_BYTES
       \/ o = "raise"

\* an HTTP status other than 200: a transport-level failure
TransportFailure(q) == q.pc = "answered" /\ q.response.status # 200

\* the response of q is a normal one whose body reports a failure
ReportsFailure(q) ==
    /\ q.response.status = 200
    /\ "success" \in DOMAIN q.response.body
    /\ ~q.response.body.success
    /\ "error" \in DOMAIN q.response.body

\* an empty body is refused with HTTP 400 and nothing is submitted
EmptyRefused(q) ==
    q.len = 0 => q.response.status = 400 /\ q.job = "none"

\* a call that fails while its request still waits gives a normal response
\* that reports the failure
FailureInTimeReported ==
    \A r \in 1..Len(requests) :
       (requests[r].job = "running" /\ requests[r].pc = "waiting") =>
          \A o \in CallOutcomes :
             (CallFails(requests[r], o) /\ JobEnd(r, o)) =>
                ReportsFailure(requests'[r])

\* C21 as stated: a one-shot request with an empty body is rejected with
\* HTTP 400 and no work is submitted; for a non-empty body a failure of the
\* call within the wait gives a normal response with success = false and an
\* error, and only the end of the wait of CALL_DEADLINE seconds gives a
\* transport-level failure response.
C21_OnlyTimeoutFailsTransport ==
    \A r \in 1..Len(requests) :
       /\ EmptyRefused(requests[r])
       /\ (requests[r].len > 0 /\ TransportFailure(requests[r])) =>
             requests[r].by = "timeout"

\* the responses of C21 amended, in every state
C21_Responses ==
    \A r \in 1..Len(requests) :
       IF requests[r].header = "malformed"
       THEN /\ requests[r].pc = "answered"
            /\ requests[r].response.status = 500
            /\ requests[r].job = "none"
       ELSE /\ EmptyRefused(requests[r])
            /\ (requests[r].len > 0 /\ TransportFailure(requests[r])) =>
                  requests[r].by = "timeout"

\* C21 amended: a one-shot request whose Content-Length is not an integer is
\* answered with HTTP 500 and no work is submitted.  Of the other requests,
\* one with an empty body is rejected with HTTP 400 and no work is
\* submitted; for a non-empty body a failure of the call within the wait
\* gives a normal response with success = false and an error, and only the
\* end of the wait of CALL_DEADLINE seconds gives a transport-level failure
\* response.
C21_TimeoutOrMalformedFailsTransport ==
    [](C21_Responses) /\ [][FailureInTimeReported]_vars

\* C21 witness: a request of a malformed Content-Length was answered with
\* HTTP 500, another was answered by the timeout, and a third got a normal
\* response reporting the failure of its call.
C21_Witness ==
    \E r1, r2, r3 \in 1..Len(requests) :
       /\ requests[r1].header = "malformed"
       /\ requests[r1].len > 0
       /\ requests[r1].response = ServerError
       /\ requests[r2].by = "timeout"
       /\ requests[r2].response.status = 500
       /\ requests[r3].by = "result"
       /\ requests[r3].job = "done"
       /\ ReportsFailure(requests[r3])

\* the JSON object of a response, as against the error page of send_error
IsJson(body) == "success" \in DOMAIN body

\* C22: every response body of the one-shot path, for text, for silence and
\* for a failure alike, is an object with the fields success, text and
\* language, and has the field error only when success is false.
C22_BodyFields ==
    \A r \in 1..Len(requests) :
       (requests[r].pc = "answered" /\ IsJson(requests[r].response.body)) =>
          /\ {"success", "text", "language"} \subseteq
                 DOMAIN requests[r].response.body
          /\ "error" \in DOMAIN requests[r].response.body =>
                ~requests[r].response.body.success

\* C23: while a one-shot request waits for the result of its call, the server
\* can take another one-shot request and submit its work; the second request
\* does not have to wait for the result or the timeout of the first.
C23_SecondRequestTaken ==
    (Waiting # {} /\ Len(requests) < MaxPosts) =>
       \E n \in BodySizes \ {0} : ENABLED Post(n, "none", "integer")

\* ------------------------------------------------------ transcription calls
\* call k has returned or raised
Exited(k) == calls[k].pc \in {"returned", "raised"}

Kept(segment) ==
    /\ segment.no_speech_prob <= NO_SPEECH_THRESHOLD
    /\ ~\E pattern \in hallucination_patterns :
           Contains(Lower(Strip(segment.text)), pattern)

RECURSIVE KeptTexts(_)
\* the trimmed texts of the kept segments, in segment order
KeptTexts(segments) ==
    IF segments = <<>> THEN <<>>
    ELSE (IF Kept(Head(segments)) THEN <<Strip(Head(segments).text)>>
          ELSE <<>>) \o KeptTexts(Tail(segments))

\* C25: the text of a transcription result is the single-space join, in
\* segment order, of the trimmed texts of exactly the returned segments whose
\* no-speech confidence does not exceed 0.5 and whose text contains no
\* denylist phrase; no segment is dropped for another reason.  (The join is
\* compared after the trim of line 329.)
C25_TextOfKeptSegments ==
    \A k \in 1..Len(calls) :
       calls[k].pc = "returned" =>
          calls[k].result.text = Strip(Join(KeptTexts(calls[k].segments)))

\* ------------------------------------------------------------ source labels
\* C26: each result message of a chunk (transcription, silence or error)
\* carries the source label that was current on the connection when the
\* chunk was emitted, also when a later start has switched the connection to
\* another source before the result was delivered.
C26_SourceOfEmission ==
    \A key \in DOMAIN hist :
       \A j \in 1..Len(ChunksOf(key)) :
          LET i == ChunksOf(key)[j].task IN
          /\ Answered(i) => RepliesTo(i) # <<>>
          /\ \A p \in 1..Len(RepliesTo(i)) :
                /\ RepliesTo(i)[p].type \in {"transcription", "silence", "error"}
                /\ RepliesTo(i)[p].source = key[2]

\* C26 witness: the result message of a chunk emitted under one source is
\* the last message its connection was sent, and the connection is on
\* another source by then: the start that switched it came before the
\* result.
C26_Witness ==
    \E key \in DOMAIN hist :
       \E j \in 1..Len(ChunksOf(key)) :
          LET i == ChunksOf(key)[j].task
              c == key[1]
          IN /\ Answered(i)
             /\ outbox[c] # <<>>
             /\ outbox[c][Len(outbox[c])].task = i
             /\ outbox[c][Len(outbox[c])].source = key[2]
             /\ Truthy(source_type[c])
             /\ source_type[c] # key[2]

\* ------------------------------------------------------------ buffer sizes
\* every session buffer of the registry is shorter than a chunk
BuffersBelowChunk ==
    \A key \in DOMAIN audio_buffers :
       /\ ByteLen(audio_buffers[key]) < MIN_CHUNK_SIZE
       /\ ByteLen(audio_buffers[key]) <= MAX_BUFFER_SIZE

\* every chunk submitted has MIN_CHUNK_SIZE bytes, an even number
ChunksExact ==
    \A i \in 1..Len(tasks) :
       /\ ByteLen(tasks[i].chunk) = MIN_CHUNK_SIZE
       /\ ByteLen(tasks[i].chunk) % 2 = 0

\* a stop and the end of a connection submit no chunk
NoFlush ==
    (Handles("stop") \/ \E c \in Conns : state[c] = "open" /\ state'[c] = "closed")
       => Len(tasks') = Len(tasks)

\* C27: when the handling of a message has completed, every session buffer of
\* the registry holds fewer than MIN_CHUNK_SIZE bytes (so no more than
\* MAX_BUFFER_SIZE); so every chunk submitted by the streaming path has
\* exactly MIN_CHUNK_SIZE bytes, an even length, and the bytes left over are
\* not flushed as a short chunk on stop or disconnect.
C27_BuffersBelowChunk ==
    [](BuffersBelowChunk /\ ChunksExact) /\ [][NoFlush]_vars

\* C27 witness: a stop was handled on a connection whose buffer was in the
\* registry after the one chunk that was ever submitted: the messages fed
\* had one byte or more beyond that chunk (a second chunk is submitted when
\* they end it exactly), and those bytes made no chunk.
C27_Witness ==
    /\ last.kind = "stop"
    /\ last.had
    /\ Len(tasks) = 1
    /\ tasks[1].ws = last.c
    /\ ByteLen(tasks[1].chunk) = MIN_CHUNK_SIZE

\* ------------------------------------------------------------ the loop
\* C28: the handling of a binary message ends: each iteration of the
\* extraction loop shrinks the buffer by at least MIN_CHUNK_SIZE -
\* OVERLAP_SIZE > 0 bytes, and from a buffer of L >= MIN_CHUNK_SIZE bytes
\* after the trim exactly 1 + (L - MIN_CHUNK_SIZE) \div (MIN_CHUNK_SIZE -
\* OVERLAP_SIZE) chunks are emitted: at most 4 for a message, however long
\* it is.
C28_LoopEnds ==
    Fed =>
       LET L == ByteLen(last.trimmed) IN
       /\ OVERLAP_SIZE < MIN_CHUNK_SIZE /\ MIN_CHUNK_SIZE < MAX_BUFFER_SIZE
       /\ \A k \in 1..Len(last.steps) :
             ByteLen(last.steps[k].pre) - ByteLen(last.steps[k].post)
                >= MIN_CHUNK_SIZE - OVERLAP_SIZE
       /\ L >= MIN_CHUNK_SIZE =>
             Len(last.steps) =
                1 + (L - MIN_CHUNK_SIZE) \div (MIN_CHUNK_SIZE - OVERLAP_SIZE)
       /\ L < MIN_CHUNK_SIZE => last.steps = <<>>
       /\ Len(last.steps) <= 4

\* C28 witness: a message longer than the buffer may be was trimmed and gave
\* 4 chunks.
C28_Witness ==
    /\ Fed
    /\ ByteLen(last.message) > MAX_BUFFER_SIZE
    /\ ByteLen(last.trimmed) = MAX_BUFFER_SIZE
    /\ Len(last.steps) = 4

====
